---- MODULE Spec2Model ----
(***************************************************************************)
(* The conversation hook of the Agent Floris frontend                      *)
(* (src/frontend/utils/useConversation.js): the signed-URL request, the    *)
(* WebSocket lifecycle, the inbound frame dispatch, the microphone relay,  *)
(* the audio playback queue and the text-to-speech fallback.               *)
(*                                                                         *)
(* The browser runs one handler at a time, so every action below is one    *)
(* whole handler (or the part of an async function between two awaits).    *)
(***************************************************************************)
EXTENDS Integers, Sequences, FiniteSets, TLC

\* ---------------------------------------------------------------- bounds
MaxStarts == 2        \* startConversation calls in a behaviour
MaxPings == 1         \* inbound frames in a behaviour of SpecPing
MaxRelayFrames == 5   \* inbound frames in a behaviour of SpecRelay
MaxAnyFrames == 3     \* inbound frames in a behaviour of SpecFrames
MaxAudioFrames == 3   \* inbound frames in a behaviour of SpecPlayback
MaxTexts == 1         \* sendTextMessage calls with a non-empty text
MaxChunks == 2        \* microphone frames delivered to onAudioChunked
MaxTextStarts == 1    \* calls of startConversation in a behaviour of SpecText
MaxWireStarts == 1    \* calls of startConversation in a behaviour of SpecWire
MaxRequests == 2      \* requests the backend receives
MaxTextFrames == 1    \* inbound frames in a behaviour of SpecText

\* ------------------------------------------------------------ input sets
Fragments == {"A", "B"}            \* base64 audio payloads
TypedTexts == {"", "hello"}        \* arguments of sendTextMessage
NULL == 0                          \* websocketRef.current = null

\* Inbound frames, as JSON.parse delivers them to ws.onmessage.
\*   parses   the payload is valid JSON
\*   type     data.type
\*   hasEvent the *_event object of the type is present
\*   event_id data.ping_event.event_id
\*   text     the transcript, response or base64 audio ("" = empty/absent)
Frame(p, t, h, id, s) ==
    [parses |-> p, type |-> t, hasEvent |-> h, event_id |-> id, text |-> s]

Ping(id) == Frame(TRUE, "ping", TRUE, id, "")
UserTranscript(s) == Frame(TRUE, "user_transcript", TRUE, 0, s)
AgentResponse(s) == Frame(TRUE, "agent_response", TRUE, 0, s)
AudioFrame(s) == Frame(TRUE, "audio", TRUE, 0, s)
Garbage == Frame(FALSE, "", FALSE, 0, "")
PingNoEvent == Frame(TRUE, "ping", FALSE, 0, "")

\* Every kind of inbound frame: well-formed ones, frames whose handling
\* throws, empty and absent payloads, and a type the handler does not know.
Frames ==
    { Ping(7), PingNoEvent, Garbage,
      UserTranscript("hi"), UserTranscript(""),
      Frame(TRUE, "user_transcript", FALSE, 0, ""),
      AgentResponse("hello"), AgentResponse(""),
      Frame(TRUE, "agent_response", FALSE, 0, ""),
      AudioFrame("A"), AudioFrame("B"), AudioFrame(""),
      Frame(TRUE, "audio", FALSE, 0, ""),
      Frame(TRUE, "interruption", FALSE, 0, "") }

\* The frames of the inbound relay's behaviours: the well-formed kinds, with
\* present, empty and absent payloads.
RelayFrames ==
    { Ping(7), UserTranscript("hi"), UserTranscript(""), AgentResponse("hello"),
      AudioFrame("A"), AudioFrame("B"), AudioFrame(""),
      Frame(TRUE, "interruption", FALSE, 0, "") }

PingIds == {7, 8}

\* A frame whose handling throws inside ws.onmessage (JSON.parse fails, or
\* data.ping_event is undefined when its event_id is read).
Throws(f) == ~f.parses \/ (f.type = "ping" /\ ~f.hasEvent)

WellFormed(f) == ~Throws(f)

VARIABLES
    messages,           \* useState: the message log, records [role, text]
    isRecording,        \* useState
    isConnected,        \* useState
    websocketRef,       \* useRef: NULL or the index of a socket in sockets
    audioQueueRef,      \* useRef: queued base64 fragments
    isAudioPlayingRef,  \* useRef
    sockets,            \* every WebSocket the hook created, in creation order
    signedUrlPending,   \* startConversation calls awaiting GET /api/signed-url
    ttsPending,         \* sendTextMessage calls awaiting POST /api/tts
    capture,            \* the microphone library: "off", "starting", "on"
    audios,             \* every Audio element created, in creation order
    micFrames,          \* microphone frames delivered so far
    \* history variables, read by the properties only
    enqueued,           \* every fragment pushed onto audioQueueRef, in order
    framesIn,           \* every frame delivered to a ws.onmessage, in order
    msgOrigin,          \* for each entry of messages: "ws" or "text"
    midflightStopped,   \* sockets whose start was in flight during a stop
    serverClosed,       \* sockets whose close event arrived while OPEN
    startCalls,         \* startConversation calls so far
    urlRequests,        \* GET /api/signed-url requests issued so far
    budget,             \* the calls and events a behaviour may make (constant)
    server              \* the Express backend: its environment, its upstream calls, its responses

vars ==
    << messages, isRecording, isConnected, websocketRef, audioQueueRef,
       isAudioPlayingRef, sockets, signedUrlPending, ttsPending, capture,
       audios, micFrames, enqueued, framesIn, msgOrigin, midflightStopped,
       serverClosed,
       startCalls, urlRequests, budget, server >>

\* ------------------------------------------------------------- helpers
Budget(s, f, t, c) == [starts |-> s, frames |-> f, texts |-> t, chunks |-> c]

RemoveAt(s, k) == [i \in 1..(Len(s) - 1) |-> IF i < k THEN s[i] ELSE s[i + 1]]

IsPrefix(s, t) == Len(s) <= Len(t) /\ \A i \in 1..Len(s) : s[i] = t[i]

Msg(r, t) == [role |-> r, text |-> t]

\* Outbound socket messages (the argument of ws.send, before JSON.stringify).
InitiationMsg == [type |-> "conversation_initiation_client_data", v |-> 0]
PongMsg(id) == [type |-> "pong", v |-> id]
ChunkMsg(n) == [type |-> "user_audio_chunk", v |-> n]

NewSocket == [readyState |-> "CONNECTING", sent |-> <<>>, onopen |-> "idle"]

\* ws.send(m) on socket i
Send(ss, i, m) == [ss EXCEPT ![i].sent = Append(@, m)]

Live(s) == s.readyState \in {"CONNECTING", "OPEN"}

\* ----------------------------------------------------- playback sequencer
\* The sequencer's state as one value: the queue, the flag and the Audio
\* elements created so far (state "playing", "ended" or "failed").
Player == [queue |-> audioQueueRef, playing |-> isAudioPlayingRef, audios |-> audios]

\* maybePlayNextAudio with the isAudioPlayingRef guard left out
MaybePlayNextAudioNoGuard(p) ==
    IF p.queue = <<>>
    THEN p
    ELSE [queue |-> Tail(p.queue), playing |-> TRUE,
          audios |-> Append(p.audios, [src |-> Head(p.queue), state |-> "playing"])]

\* maybePlayNextAudio taking the newest fragment (pop instead of shift)
MaybePlayNextAudioPop(p) ==
    IF p.playing \/ p.queue = <<>>
    THEN p
    ELSE [queue |-> SubSeq(p.queue, 1, Len(p.queue) - 1), playing |-> TRUE,
          audios |-> Append(p.audios,
                            [src |-> p.queue[Len(p.queue)], state |-> "playing"])]

MaybePlayNextAudio(p) ==
    IF p.playing
    THEN p
    ELSE IF p.queue = <<>>   \* shift() of an empty array is undefined
    THEN p
    ELSE [queue |-> Tail(p.queue), playing |-> TRUE,
          audios |-> Append(p.audios, [src |-> Head(p.queue), state |-> "playing"])]

\* A push that is not followed by maybePlayNextAudio().
EnqueueOnly(p, b) == [p EXCEPT !.queue = Append(@, b)]

\* audioQueueRef.current.push(b); maybePlayNextAudio()
Enqueue(p, b) == MaybePlayNextAudio([p EXCEPT !.queue = Append(@, b)])

\* the callbacks of Audio element k, with a catch of audio.play() that only
\* clears the flag and does not go on to the next fragment
FinishedStallsOnFailure(p, k, how) ==
    IF how = "failed"
    THEN [p EXCEPT !.playing = FALSE, !.audios[k].state = how]
    ELSE MaybePlayNextAudio([p EXCEPT !.playing = FALSE, !.audios[k].state = how])

\* audio.onended / the catch of audio.play(), for Audio element k. An element
\* whose play() is rejected never plays, so it fires one of the two, once.
Finished(p, k, how) ==
    MaybePlayNextAudio([p EXCEPT !.playing = FALSE, !.audios[k].state = how])

SetPlayer(p) ==
    /\ audioQueueRef' = p.queue
    /\ isAudioPlayingRef' = p.playing
    /\ audios' = p.audios

\* ------------------------------------------------- microphone library
\* useVoiceStream's startStreaming / stopStreaming, by their contract:
\* startStreaming begins an asynchronous start, stopStreaming ends delivery
\* and releases the device (and abandons a start still in progress).
StartStreaming(c) == IF c = "off" THEN "starting" ELSE c

StreamingStarted(c) == IF c = "starting" THEN "on" ELSE c

StopStreaming(c) == "off"

\* ------------------------------------------------------ the voice channel
\* The part of the hook's state that start, stop, open and close act on.
Conn ==
    [websocketRef |-> websocketRef, isConnected |-> isConnected,
     isRecording |-> isRecording, capture |-> capture, sockets |-> sockets]

SetConn(c) ==
    /\ websocketRef' = c.websocketRef
    /\ isConnected' = c.isConnected
    /\ isRecording' = c.isRecording
    /\ capture' = c.capture
    /\ sockets' = c.sockets

\* startConversation's guard: the call returns at once
StartGuardNever(connected) == FALSE

StartGuard(connected) == connected

\* new WebSocket(signedUrl); websocketRef.current = ws
OpenSocket(c) ==
    [c EXCEPT !.sockets = Append(@, NewSocket),
              !.websocketRef = Len(c.sockets) + 1]

\* ws.onopen that does not send the initiation message
OnOpenNoInitiation(c, i) ==
    [c EXCEPT !.isConnected = TRUE,
              !.sockets = [@ EXCEPT ![i].readyState = "OPEN",
                                    ![i].onopen = "awaitStreaming"],
              !.capture = StartStreaming(@)]

\* ws.onopen up to its await: setIsConnected(true), send the initiation
\* message, call startStreaming()
OnOpen(c, i) ==
    [c EXCEPT !.isConnected = TRUE,
              !.sockets = Send([@ EXCEPT ![i].readyState = "OPEN",
                                         ![i].onopen = "awaitStreaming"],
                               i, InitiationMsg),
              !.capture = StartStreaming(@)]

\* ws.onopen after await startStreaming(): setIsRecording(true); when the
\* promise rejects the rest of the handler is skipped
OnOpenResumed(c, i, ok) ==
    IF ok
    THEN [c EXCEPT !.sockets[i].onopen = "done",
                   !.capture = StreamingStarted(@),
                   !.isRecording = TRUE]
    ELSE [c EXCEPT !.sockets[i].onopen = "done",
                   !.capture = IF @ = "starting" THEN "off" ELSE @]

\* ws.onclose that forgets to reset the recording indicator
OnCloseKeepsRecording(c, i) ==
    [c EXCEPT !.sockets[i].readyState = "CLOSED",
              !.websocketRef = NULL,
              !.isConnected = FALSE,
              !.capture = StopStreaming(@)]

\* the close event of socket i: readyState becomes CLOSED, then ws.onclose
OnClose(c, i) ==
    [c EXCEPT !.sockets[i].readyState = "CLOSED",
              !.websocketRef = NULL,
              !.isConnected = FALSE,
              !.isRecording = FALSE,
              !.capture = StopStreaming(@)]

\* stopConversation that toggles the recording indicator
StopToggles(c) ==
    LET ws == c.websocketRef
        open == ws # NULL /\ c.sockets[ws].readyState = "OPEN"
    IN  [websocketRef |-> NULL,
         isConnected |-> FALSE,
         isRecording |-> ~c.isRecording,
         capture |-> StopStreaming(c.capture),
         sockets |-> IF open
                     THEN [c.sockets EXCEPT ![ws].readyState = "CLOSING"]
                     ELSE c.sockets]

\* stopConversation: ws.close() only when the current socket is OPEN
Stop(c) ==
    LET ws == c.websocketRef
        open == ws # NULL /\ c.sockets[ws].readyState = "OPEN"
    IN  [websocketRef |-> NULL,
         isConnected |-> FALSE,
         isRecording |-> FALSE,
         capture |-> StopStreaming(c.capture),
         sockets |-> IF open
                     THEN [c.sockets EXCEPT ![ws].readyState = "CLOSING"]
                     ELSE c.sockets]

\* onAudioChunked that only checks for a socket, not for readyState OPEN
ChunkTargetAnyState(c) ==
    IF c.websocketRef = NULL THEN NULL ELSE c.websocketRef

\* onAudioChunked: the socket the chunk is sent on, NULL when it is dropped
ChunkTarget(c) ==
    LET ws == c.websocketRef
    IN  IF ws = NULL \/ c.sockets[ws].readyState # "OPEN" THEN NULL ELSE ws

\* ------------------------------------------------------- ws.onmessage
\* the value read through `data.<type>_event?.<field>` ("" when undefined)
Payload(f) == IF f.hasEvent THEN f.text ELSE ""

\* ws.onmessage whose ping branch does not echo the event_id
PongsForZero(f) ==
    IF Throws(f) THEN <<>>
    ELSE IF f.type = "ping" THEN <<PongMsg(0)>>
    ELSE <<>>

\* what the handler sends on its socket for frame f
PongsFor(f) ==
    IF Throws(f) THEN <<>>
    ELSE IF f.type = "ping" THEN <<PongMsg(f.event_id)>>
    ELSE <<>>

\* ws.onmessage that logs every agent_response as a user message
MessagesForOneRole(f) ==
    IF Throws(f) \/ f.type = "ping" THEN <<>>
    ELSE IF f.type \in {"user_transcript", "agent_response"} /\ Payload(f) # ""
    THEN <<Msg("user", Payload(f))>>
    ELSE <<>>

\* ws.onmessage that reports a frame it cannot handle in the message log
MessagesForReportsError(f) ==
    IF Throws(f) THEN <<Msg("agent", "Sorry, I could not process that.")>>
    ELSE IF f.type = "ping" THEN <<>>
    ELSE IF f.type = "user_transcript" /\ Payload(f) # ""
    THEN <<Msg("user", Payload(f))>>
    ELSE IF f.type = "agent_response" /\ Payload(f) # ""
    THEN <<Msg("agent", Payload(f))>>
    ELSE <<>>

\* what the handler appends to the message log for frame f
MessagesFor(f) ==
    IF Throws(f) THEN <<>>
    ELSE IF f.type = "ping" THEN <<>>
    ELSE IF f.type = "user_transcript" /\ Payload(f) # ""
    THEN <<Msg("user", Payload(f))>>
    ELSE IF f.type = "agent_response" /\ Payload(f) # ""
    THEN <<Msg("agent", Payload(f))>>
    ELSE <<>>

\* An audio branch that queues the payload without testing it.
AudioForAnyPayload(f) ==
    IF Throws(f) THEN <<>>
    ELSE IF f.type = "audio" THEN <<Payload(f)>>
    ELSE <<>>

\* what the handler pushes onto the audio queue for frame f
AudioFor(f) ==
    IF Throws(f) THEN <<>>
    ELSE IF f.type = "audio" /\ Payload(f) # "" THEN <<Payload(f)>>
    ELSE <<>>

\* process.env of the backend: a variable that is unset or blank reads as ""
Env(a, k, v) == [agentId |-> a, apiKey |-> k, voiceId |-> v]

Envs == {Env(a, k, v) : a \in {"", "agent-1"}, k \in {"", "sk-key"}, v \in {"", "voice-1"}}

DeployedEnv == Env("agent-1", "sk-key", "voice-1")

ServerAt(env) == [env |-> env, pending |-> <<>>, upstream |-> <<>>, responses |-> <<>>]

\* ------------------------------------------------------------- initial
\* The hook after its first render: no session, empty log, empty queue.
InitIdle ==
    /\ messages = <<>>
    /\ isRecording = FALSE
    /\ isConnected = FALSE
    /\ websocketRef = NULL
    /\ audioQueueRef = <<>>
    /\ isAudioPlayingRef = FALSE
    /\ sockets = <<>>
    /\ signedUrlPending = <<>>
    /\ ttsPending = <<>>
    /\ capture = "off"
    /\ audios = <<>>
    /\ micFrames = 0
    /\ enqueued = <<>>
    /\ framesIn = <<>>
    /\ msgOrigin = <<>>
    /\ midflightStopped = {}
    /\ serverClosed = {}
    /\ startCalls = 0
    /\ urlRequests = 0

Init == InitIdle /\ budget = Budget(MaxStarts, 0, 0, MaxChunks) /\ server = ServerAt(DeployedEnv)

UNCHANGED_player == UNCHANGED <<audioQueueRef, isAudioPlayingRef, audios, enqueued>>

UNCHANGED_conn == UNCHANGED <<websocketRef, isConnected, isRecording, capture, sockets>>

UNCHANGED_log == UNCHANGED <<messages, msgOrigin>>

\* ------------------------------------------------------------- actions
\* startConversation, up to `await axios.get('/api/signed-url')`
StartConversation ==
    /\ startCalls < budget.starts
    /\ startCalls' = startCalls + 1
    /\ IF StartGuard(isConnected)
       THEN UNCHANGED <<signedUrlPending, urlRequests>>
       ELSE /\ signedUrlPending' = Append(signedUrlPending, [stopped |-> FALSE])
            /\ urlRequests' = urlRequests + 1
    /\ UNCHANGED_conn /\ UNCHANGED_player /\ UNCHANGED_log
    /\ UNCHANGED <<ttsPending, micFrames, framesIn, midflightStopped, serverClosed, budget, server>>

\* A startConversation that requests the signed URL again when the request
\* failed.
SignedUrlResponseRetries(k, hasUrl) ==
    /\ k \in 1..Len(signedUrlPending)
    /\ IF hasUrl
       THEN /\ SetConn(OpenSocket(Conn))
            /\ signedUrlPending' = RemoveAt(signedUrlPending, k)
            /\ midflightStopped' =
                   IF signedUrlPending[k].stopped
                   THEN midflightStopped \cup {Len(sockets) + 1}
                   ELSE midflightStopped
            /\ UNCHANGED urlRequests
       ELSE /\ urlRequests <= budget.starts
            /\ signedUrlPending' = Append(RemoveAt(signedUrlPending, k), [stopped |-> FALSE])
            /\ urlRequests' = urlRequests + 1
            /\ UNCHANGED_conn /\ UNCHANGED midflightStopped
    /\ UNCHANGED serverClosed
    /\ UNCHANGED_player /\ UNCHANGED_log
    /\ UNCHANGED <<ttsPending, micFrames, framesIn, startCalls, budget, server>>

\* startConversation after the await, for the k-th pending call: a response
\* carrying a signedUrl creates the socket; a failed request, a response
\* without signedUrl or a URL the WebSocket constructor rejects ends in the
\* catch block
SignedUrlResponse(k, hasUrl) ==
    /\ k \in 1..Len(signedUrlPending)
    /\ signedUrlPending' = RemoveAt(signedUrlPending, k)
    /\ IF hasUrl
       THEN /\ SetConn(OpenSocket(Conn))
            /\ midflightStopped' =
                   IF signedUrlPending[k].stopped
                   THEN midflightStopped \cup {Len(sockets) + 1}
                   ELSE midflightStopped
       ELSE UNCHANGED_conn /\ UNCHANGED midflightStopped
    /\ UNCHANGED serverClosed
    /\ UNCHANGED_player /\ UNCHANGED_log
    /\ UNCHANGED <<ttsPending, micFrames, framesIn, startCalls, urlRequests, budget, server>>

\* the open event of socket i and ws.onopen up to its await
SocketOpen(i) ==
    /\ i \in 1..Len(sockets)
    /\ sockets[i].readyState = "CONNECTING"
    /\ SetConn(OnOpen(Conn, i))
    /\ UNCHANGED_player /\ UNCHANGED_log
    /\ UNCHANGED <<signedUrlPending, ttsPending, micFrames, framesIn,
                   midflightStopped, serverClosed, startCalls, urlRequests, budget, server>>

\* ws.onopen resumes when the startStreaming() promise settles
OnOpenResume(i, ok) ==
    /\ i \in 1..Len(sockets)
    /\ sockets[i].onopen = "awaitStreaming"
    /\ SetConn(OnOpenResumed(Conn, i, ok))
    /\ UNCHANGED_player /\ UNCHANGED_log
    /\ UNCHANGED <<signedUrlPending, ttsPending, micFrames, framesIn,
                   midflightStopped, serverClosed, startCalls, urlRequests, budget, server>>

\* a message event on socket i (delivered only while the socket is OPEN)
OnMessage(i, f) ==
    /\ i \in 1..Len(sockets)
    /\ sockets[i].readyState = "OPEN"
    /\ Len(framesIn) < budget.frames
    /\ framesIn' = Append(framesIn, [sock |-> i, frame |-> f])
    /\ sockets' = [sockets EXCEPT ![i].sent = @ \o PongsFor(f)]
    /\ messages' = messages \o MessagesFor(f)
    /\ msgOrigin' = msgOrigin \o [j \in 1..Len(MessagesFor(f)) |-> "ws"]
    /\ IF AudioFor(f) = <<>>
       THEN UNCHANGED_player
       ELSE /\ SetPlayer(Enqueue(Player, AudioFor(f)[1]))
            /\ enqueued' = Append(enqueued, AudioFor(f)[1])
    /\ UNCHANGED <<websocketRef, isConnected, isRecording, capture,
                   signedUrlPending, ttsPending, micFrames, midflightStopped, serverClosed,
                   startCalls, urlRequests, budget, server>>

\* the close event of socket i (the server closed it, the connection failed,
\* or the close that stopConversation started completed) and ws.onclose
SocketClose(i) ==
    /\ i \in 1..Len(sockets)
    /\ sockets[i].readyState # "CLOSED"
    /\ SetConn(OnClose(Conn, i))
    /\ serverClosed' = IF sockets[i].readyState = "OPEN"
                       THEN serverClosed \cup {i}
                       ELSE serverClosed
    /\ UNCHANGED_player /\ UNCHANGED_log
    /\ UNCHANGED <<signedUrlPending, ttsPending, micFrames, framesIn,
                   midflightStopped, startCalls, urlRequests, budget, server>>

\* A stopConversation that also empties the audio queue.
StopConversationFlushesAudio ==
    /\ SetConn(Stop(Conn))
    /\ signedUrlPending' = [k \in 1..Len(signedUrlPending) |-> [stopped |-> TRUE]]
    /\ midflightStopped' = midflightStopped \cup
           {i \in 1..Len(sockets) : sockets[i].readyState = "CONNECTING"}
    /\ audioQueueRef' = <<>>
    /\ UNCHANGED <<isAudioPlayingRef, audios, enqueued>>
    /\ UNCHANGED serverClosed
    /\ UNCHANGED_log
    /\ UNCHANGED <<ttsPending, micFrames, framesIn, startCalls, urlRequests, budget, server>>

\* A stopConversation that also clears the message log.
StopConversationClearsLog ==
    /\ SetConn(Stop(Conn))
    /\ signedUrlPending' = [k \in 1..Len(signedUrlPending) |-> [stopped |-> TRUE]]
    /\ midflightStopped' = midflightStopped \cup
           {i \in 1..Len(sockets) : sockets[i].readyState = "CONNECTING"}
    /\ messages' = <<>>
    /\ msgOrigin' = <<>>
    /\ UNCHANGED serverClosed
    /\ UNCHANGED_player
    /\ UNCHANGED <<ttsPending, micFrames, framesIn, startCalls, urlRequests, budget, server>>

\* stopConversation
StopConversation ==
    /\ SetConn(Stop(Conn))
    /\ signedUrlPending' = [k \in 1..Len(signedUrlPending) |-> [stopped |-> TRUE]]
    /\ midflightStopped' = midflightStopped \cup
           {i \in 1..Len(sockets) : sockets[i].readyState = "CONNECTING"}
    /\ UNCHANGED serverClosed
    /\ UNCHANGED_player /\ UNCHANGED_log
    /\ UNCHANGED <<ttsPending, micFrames, framesIn, startCalls, urlRequests, budget, server>>

\* onAudioChunked: the library delivers microphone frame micFrames + 1; a
\* frame already on its way may still arrive after stopStreaming()
OnAudioChunked ==
    /\ micFrames < budget.chunks
    /\ capture = "on" \/ micFrames > 0
    /\ micFrames' = micFrames + 1
    /\ sockets' = IF ChunkTarget(Conn) = NULL
                  THEN sockets
                  ELSE Send(sockets, ChunkTarget(Conn), ChunkMsg(micFrames + 1))
    /\ UNCHANGED <<websocketRef, isConnected, isRecording, capture>>
    /\ UNCHANGED_player /\ UNCHANGED_log
    /\ UNCHANGED <<signedUrlPending, ttsPending, framesIn, midflightStopped, serverClosed,
                   startCalls, urlRequests, budget, server>>

TextCalls ==
    Cardinality({j \in 1..Len(messages) :
                    msgOrigin[j] = "text" /\ messages[j].role = "user"})

\* A sendTextMessage that also writes the text on the current socket.
SendTextMessageOverSocket(text) ==
    /\ IF text = ""
       THEN UNCHANGED <<messages, msgOrigin, ttsPending, sockets>>
       ELSE /\ TextCalls < budget.texts
            /\ messages' = Append(messages, Msg("user", text))
            /\ msgOrigin' = Append(msgOrigin, "text")
            /\ ttsPending' = Append(ttsPending, text)
            /\ sockets' = IF ChunkTarget(Conn) = NULL
                          THEN sockets
                          ELSE Send(sockets, ChunkTarget(Conn), [type |-> "text", v |-> 0])
    /\ UNCHANGED <<websocketRef, isConnected, isRecording, capture>>
    /\ UNCHANGED_player
    /\ UNCHANGED <<signedUrlPending, micFrames, framesIn, midflightStopped, serverClosed,
                   startCalls, urlRequests, budget, server>>

\* sendTextMessage(text), up to `await axios.post('/api/tts', { text })`
SendTextMessage(text) ==
    /\ IF text = ""
       THEN UNCHANGED <<messages, msgOrigin, ttsPending>>
       ELSE /\ TextCalls < budget.texts
            /\ messages' = Append(messages, Msg("user", text))
            /\ msgOrigin' = Append(msgOrigin, "text")
            /\ ttsPending' = Append(ttsPending, text)
    /\ UNCHANGED_conn /\ UNCHANGED_player
    /\ UNCHANGED <<signedUrlPending, micFrames, framesIn, midflightStopped, serverClosed,
                   startCalls, urlRequests, budget, server>>

\* sendTextMessage after the await, for the k-th pending call: the request
\* succeeded with body {audio} (possibly empty), or it failed
TtsResponse(k, ok, audio) ==
    /\ k \in 1..Len(ttsPending)
    /\ ttsPending' = RemoveAt(ttsPending, k)
    /\ IF ok /\ audio # ""
       THEN /\ SetPlayer(Enqueue(Player, audio))
            /\ enqueued' = Append(enqueued, audio)
            /\ messages' = Append(messages, Msg("agent", "[audio]"))
            /\ msgOrigin' = Append(msgOrigin, "text")
       ELSE IF ok
       THEN UNCHANGED_player /\ UNCHANGED_log
       ELSE /\ UNCHANGED_player
            /\ messages' = Append(messages, Msg("agent", "Sorry, I could not process that."))
            /\ msgOrigin' = Append(msgOrigin, "text")
    /\ UNCHANGED_conn
    /\ UNCHANGED <<signedUrlPending, micFrames, framesIn, midflightStopped, serverClosed,
                   startCalls, urlRequests, budget, server>>

\* audio.onended of Audio element k
AudioEnded(k) ==
    /\ k \in 1..Len(audios)
    /\ audios[k].state = "playing"
    /\ SetPlayer(Finished(Player, k, "ended"))
    /\ UNCHANGED_conn /\ UNCHANGED_log
    /\ UNCHANGED <<enqueued, signedUrlPending, ttsPending, micFrames, framesIn,
                   midflightStopped, serverClosed, startCalls, urlRequests, budget, server>>

\* the catch of audio.play() of Audio element k
AudioFailed(k) ==
    /\ k \in 1..Len(audios)
    /\ audios[k].state = "playing"
    /\ SetPlayer(Finished(Player, k, "failed"))
    /\ UNCHANGED_conn /\ UNCHANGED_log
    /\ UNCHANGED <<enqueued, signedUrlPending, ttsPending, micFrames, framesIn,
                   midflightStopped, serverClosed, startCalls, urlRequests, budget, server>>

\* ------------------------------------------------------------- backend
\* req.body.text of a POST /api/tts: absent, a string, or a number
Text(t, v) == [type |-> t, value |-> v]

Bodies == {Text("undefined", ""), Text("string", ""), Text("string", "hello"),
           Text("number", "0"), Text("number", "42")}

NoBody == Text("undefined", "")

\* !text
Falsy(b) == b.type = "undefined" \/ b.value = "" \/ (b.type = "number" /\ b.value = "0")

\* what the ElevenLabs API answers: a non-2xx status or a network error makes
\* axios reject (ok = FALSE); a 2xx answer carries signed_url (get-signed-url,
\* "" when the field is absent) or the audio bytes (text-to-speech)
Upstream(ok, url, bytes) == [ok |-> ok, signed_url |-> url, bytes |-> bytes]

NoCall == Upstream(FALSE, "none", <<>>)

SignedUrlAnswers == {Upstream(FALSE, "", <<>>), Upstream(TRUE, "", <<>>),
                     Upstream(TRUE, "wss://signed-1", <<>>), Upstream(TRUE, "wss://signed-2", <<>>)}

SpeechAnswers == {Upstream(FALSE, "", <<>>), Upstream(TRUE, "", <<>>),
                  Upstream(TRUE, "", <<73, 68, 51>>)}

\* audioBuffer.toString('base64')
Base64(bytes) == IF bytes = <<>> THEN "" ELSE IF bytes = <<73, 68, 51>> THEN "SUQz" ELSE "AA=="

\* a response of the backend, with the request and the upstream answer it
\* was computed from
Response(route, text, up, status, error, signedUrl, audio, format) ==
    [route |-> route, text |-> text, up |-> up, status |-> status, error |-> error,
     signedUrl |-> signedUrl, audio |-> audio, format |-> format]

Failure(route, text, up, status, error) == Response(route, text, up, status, error, "", "", "")

\* res.status(status).json({error}) before any upstream call; Pass when the
\* handler goes on to the upstream call
Err(status, error) == [status |-> status, error |-> error]

Pass == Err(0, "")

\* A signed-url route that does not check the API key.
SignedUrlPrecheckNoKey(env) ==
    IF env.agentId = "" THEN Err(500, "Agent ID is not configured")
    ELSE Pass

\* router.get('/signed-url') before the await
SignedUrlPrecheck(env) ==
    IF env.agentId = "" THEN Err(500, "Agent ID is not configured")
    ELSE IF env.apiKey = "" THEN Err(500, "ElevenLabs API key is not configured")
    ELSE Pass

\* router.get('/signed-url') after the await, getSignedUrl included
SignedUrlReply(up) ==
    IF up.ok /\ up.signed_url # ""
    THEN Response("signed-url", NoBody, up, 200, "", up.signed_url, "", "")
    ELSE Failure("signed-url", NoBody, up, 500, "Failed to obtain signed URL")

\* router.post('/tts') before the await
TtsPrecheck(env, b) ==
    IF env.apiKey = "" \/ env.voiceId = ""
    THEN Err(500, "Voice ID or API key not configured")
    ELSE IF Falsy(b) \/ b.type # "string"
    THEN Err(400, "Invalid or missing text")
    ELSE Pass

\* router.post('/tts') after the await, textToSpeech included
TtsReply(b, up) ==
    IF up.ok
    THEN Response("tts", b, up, 200, "", "", Base64(up.bytes), "mp3")
    ELSE Failure("tts", b, up, 500, "Failed to generate speech")

UNCHANGED_hook ==
    UNCHANGED <<messages, isRecording, isConnected, websocketRef, audioQueueRef,
                isAudioPlayingRef, sockets, signedUrlPending, ttsPending, capture, audios,
                micFrames, enqueued, framesIn, msgOrigin, midflightStopped, serverClosed,
                startCalls, urlRequests, budget>>

Requests == Len(server.responses) + Len(server.pending)

\* a GET /api/signed-url arrives
GetSignedUrlRequest ==
    /\ Requests < MaxRequests
    /\ IF SignedUrlPrecheck(server.env) = Pass
       THEN server' = [server EXCEPT
                !.upstream = Append(@, [api |-> "get-signed-url", id |-> server.env.agentId,
                                        key |-> server.env.apiKey, text |-> ""]),
                !.pending = Append(@, [route |-> "signed-url", text |-> NoBody])]
       ELSE server' = [server EXCEPT
                !.responses = Append(@, Failure("signed-url", NoBody, NoCall,
                                                SignedUrlPrecheck(server.env).status,
                                                SignedUrlPrecheck(server.env).error))]
    /\ UNCHANGED_hook

\* a POST /api/tts with body {text: b} arrives
PostTtsRequest(b) ==
    /\ Requests < MaxRequests
    /\ IF TtsPrecheck(server.env, b) = Pass
       THEN server' = [server EXCEPT
                !.upstream = Append(@, [api |-> "text-to-speech", id |-> server.env.voiceId,
                                        key |-> server.env.apiKey, text |-> b.value]),
                !.pending = Append(@, [route |-> "tts", text |-> b])]
       ELSE server' = [server EXCEPT
                !.responses = Append(@, Failure("tts", b, NoCall, TtsPrecheck(server.env, b).status,
                                                TtsPrecheck(server.env, b).error))]
    /\ UNCHANGED_hook

\* the ElevenLabs API answers the k-th pending request
UpstreamAnswer(k, up) ==
    /\ k \in 1..Len(server.pending)
    /\ IF server.pending[k].route = "signed-url"
       THEN /\ up \in SignedUrlAnswers
            /\ server' = [server EXCEPT !.pending = RemoveAt(@, k),
                                        !.responses = Append(@, SignedUrlReply(up))]
       ELSE /\ up \in SpeechAnswers
            /\ server' = [server EXCEPT !.pending = RemoveAt(@, k),
                                        !.responses = Append(@, TtsReply(server.pending[k].text, up))]
    /\ UNCHANGED_hook

\* ------------------------------------------------------ specifications
SocketIds == 1..Len(sockets)

\* The voice channel: every interleaving of start, stop, the signed-URL
\* responses, the socket events and the microphone frames.
Next ==
    \/ StartConversation
    \/ \E k \in 1..Len(signedUrlPending), hasUrl \in BOOLEAN : SignedUrlResponse(k, hasUrl)
    \/ \E i \in SocketIds : SocketOpen(i)
    \/ \E i \in SocketIds, ok \in BOOLEAN : OnOpenResume(i, ok)
    \/ \E i \in SocketIds : SocketClose(i)
    \/ StopConversation
    \/ OnAudioChunked

Spec == Init /\ [][Next]_vars

\* The keep-alive: the voice channel with pings arriving on its open
\* sockets, and no microphone frames.
InitPing == InitIdle /\ budget = Budget(MaxStarts, MaxPings, 0, 0) /\ server = ServerAt(DeployedEnv)

NextPing ==
    \/ StartConversation
    \/ \E k \in 1..Len(signedUrlPending), hasUrl \in BOOLEAN : SignedUrlResponse(k, hasUrl)
    \/ \E i \in SocketIds : SocketOpen(i)
    \/ \E i \in SocketIds, ok \in BOOLEAN : OnOpenResume(i, ok)
    \/ \E i \in SocketIds, id \in PingIds : OnMessage(i, Ping(id))
    \/ \E i \in SocketIds : SocketClose(i)
    \/ StopConversation

SpecPing == InitPing /\ [][NextPing]_vars

\* The state of an Active session: one start, its signed URL, the socket
\* open, the initiation message sent and the microphone streaming.
InitActive ==
    /\ messages = <<>>
    /\ isRecording = TRUE
    /\ isConnected = TRUE
    /\ websocketRef = 1
    /\ audioQueueRef = <<>>
    /\ isAudioPlayingRef = FALSE
    /\ sockets = <<[readyState |-> "OPEN", sent |-> <<InitiationMsg>>, onopen |-> "done"]>>
    /\ signedUrlPending = <<>>
    /\ ttsPending = <<>>
    /\ capture = "on"
    /\ audios = <<>>
    /\ micFrames = 0
    /\ enqueued = <<>>
    /\ framesIn = <<>>
    /\ msgOrigin = <<>>
    /\ midflightStopped = {}
    /\ serverClosed = {}
    /\ startCalls = 1
    /\ urlRequests = 1

\* The inbound relay: every sequence of inbound frames on the open socket,
\* interleaved with the playback events.
InitRelay == InitActive /\ budget = Budget(1, MaxRelayFrames, 0, 0) /\ server = ServerAt(DeployedEnv)

NextRelay ==
    \/ \E f \in RelayFrames : OnMessage(1, f)
    \/ \E k \in 1..Len(audios) : AudioEnded(k)
    \/ \E k \in 1..Len(audios) : AudioFailed(k)

SpecRelay == InitRelay /\ [][NextRelay]_vars

\* The playback sequencer: audio from the socket and from the text fallback,
\* interleaved with the playback events.
InitPlayback == InitActive /\ budget = Budget(1, MaxAudioFrames, MaxTexts, 0) /\ server = ServerAt(DeployedEnv)

NextPlayback ==
    \/ \E b \in Fragments : OnMessage(1, AudioFrame(b))
    \/ \E text \in TypedTexts : SendTextMessage(text)
    \/ \E k \in 1..Len(ttsPending), ok \in BOOLEAN, audio \in Fragments \cup {""} :
           TtsResponse(k, ok, audio)
    \/ \E k \in 1..Len(audios) : AudioEnded(k)
    \/ \E k \in 1..Len(audios) : AudioFailed(k)

SpecPlayback == InitPlayback /\ [][NextPlayback]_vars

\* The playback sequencer when every playback that was started ends or
\* fails: an Audio element that is playing fires onended or rejects play().
PlaybackSettles == \E k \in 1..Len(audios) : AudioEnded(k) \/ AudioFailed(k)

SpecPlaybackFair == SpecPlayback /\ WF_vars(PlaybackSettles)

\* Any inbound frame: every sequence of frames of every kind, the ones whose
\* handling throws included, on the open socket of an Active session.
InitFrames == InitActive /\ budget = Budget(1, MaxAnyFrames, 0, 0) /\ server = ServerAt(DeployedEnv)

NextFrames ==
    \/ \E f \in Frames : OnMessage(1, f)
    \/ \E k \in 1..Len(audios) : AudioEnded(k)
    \/ \E k \in 1..Len(audios) : AudioFailed(k)

SpecFrames == InitFrames /\ [][NextFrames]_vars

\* The text fallback next to the voice channel: sendTextMessage and its
\* completion in every phase of a session, with audio arriving on the open
\* socket and every playback running to its end.
TextFrames == {AudioFrame("A")}

InitText == InitIdle /\ budget = Budget(MaxTextStarts, MaxTextFrames, MaxTexts, 0) /\ server = ServerAt(DeployedEnv)

NextText ==
    \/ StartConversation
    \/ \E k \in 1..Len(signedUrlPending), hasUrl \in BOOLEAN : SignedUrlResponse(k, hasUrl)
    \/ \E i \in SocketIds : SocketOpen(i)
    \/ \E i \in SocketIds, ok \in BOOLEAN : OnOpenResume(i, ok)
    \/ \E i \in SocketIds, f \in TextFrames : OnMessage(i, f)
    \/ \E i \in SocketIds : SocketClose(i)
    \/ StopConversation
    \/ \E text \in TypedTexts : SendTextMessage(text)
    \/ \E k \in 1..Len(ttsPending), ok \in BOOLEAN, audio \in {"B", ""} :
           TtsResponse(k, ok, audio)
    \/ \E k \in 1..Len(audios) : AudioEnded(k)

SpecText == InitText /\ [][NextText]_vars

\* The teardown of an Active session next to the playback sequencer: audio
\* from the socket and from the text fallback, stopConversation, the close
\* event, and the playback events.
InitTeardown == InitActive /\ budget = Budget(1, MaxAudioFrames, MaxTexts, 0) /\ server = ServerAt(DeployedEnv)

NextTeardown ==
    \/ \E b \in Fragments : OnMessage(1, AudioFrame(b))
    \/ SocketClose(1)
    \/ StopConversation
    \/ \E text \in TypedTexts : SendTextMessage(text)
    \/ \E k \in 1..Len(ttsPending), ok \in BOOLEAN, audio \in Fragments \cup {""} :
           TtsResponse(k, ok, audio)
    \/ \E k \in 1..Len(audios) : AudioEnded(k)
    \/ \E k \in 1..Len(audios) : AudioFailed(k)

SpecTeardown == InitTeardown /\ [][NextTeardown]_vars

\* The same when every playback that was started ends or fails.
SpecTeardownFair == SpecTeardown /\ WF_vars(PlaybackSettles)

\* The message log under every operation of the hook: start, stop, the
\* socket events with transcripts and responses arriving, sendTextMessage and
\* its completion.
LogFrames == {UserTranscript("hi"), AgentResponse("hello")}

InitLog == InitIdle /\ budget = Budget(MaxTextStarts, MaxTextFrames, MaxTexts, 0) /\ server = ServerAt(DeployedEnv)

NextLog ==
    \/ StartConversation
    \/ \E k \in 1..Len(signedUrlPending), hasUrl \in BOOLEAN : SignedUrlResponse(k, hasUrl)
    \/ \E i \in SocketIds : SocketOpen(i)
    \/ \E i \in SocketIds, ok \in BOOLEAN : OnOpenResume(i, ok)
    \/ \E i \in SocketIds, f \in LogFrames : OnMessage(i, f)
    \/ \E i \in SocketIds : SocketClose(i)
    \/ StopConversation
    \/ \E text \in TypedTexts : SendTextMessage(text)
    \/ \E k \in 1..Len(ttsPending), ok \in BOOLEAN, audio \in {"B"} :
           TtsResponse(k, ok, audio)

SpecLog == InitLog /\ [][NextLog]_vars

\* Everything the hook sends on a socket: the voice channel with microphone
\* frames and pings together.
InitWire == InitIdle /\ budget = Budget(MaxWireStarts, MaxPings, 0, MaxChunks) /\ server = ServerAt(DeployedEnv)

NextWire ==
    \/ StartConversation
    \/ \E k \in 1..Len(signedUrlPending), hasUrl \in BOOLEAN : SignedUrlResponse(k, hasUrl)
    \/ \E i \in SocketIds : SocketOpen(i)
    \/ \E i \in SocketIds, ok \in BOOLEAN : OnOpenResume(i, ok)
    \/ \E i \in SocketIds, id \in PingIds : OnMessage(i, Ping(id))
    \/ \E i \in SocketIds : SocketClose(i)
    \/ StopConversation
    \/ OnAudioChunked

SpecWire == InitWire /\ [][NextWire]_vars

\* The backend: every environment it can be deployed with, every request to
\* its two routes and every answer of the ElevenLabs API.
InitBackend ==
    /\ InitIdle
    /\ budget = Budget(0, 0, 0, 0)
    /\ \E env \in Envs : server = ServerAt(env)

NextBackend ==
    \/ GetSignedUrlRequest
    \/ \E b \in Bodies : PostTtsRequest(b)
    \/ \E k \in 1..Len(server.pending), up \in SignedUrlAnswers \cup SpeechAnswers :
           UpstreamAnswer(k, up)

SpecBackend == InitBackend /\ [][NextBackend]_vars

\* ============================================================ properties
\* The fragments handed to the player, in the order the Audio elements were
\* created.
Started == [k \in 1..Len(audios) |-> audios[k].src]

InPlayback == {k \in 1..Len(audios) : audios[k].state = "playing"}

LiveSockets == {i \in SocketIds : Live(sockets[i])}

\* The session is Active: the open event of the current socket was handled.
Active ==
    /\ isConnected
    /\ websocketRef # NULL
    /\ sockets[websocketRef].readyState = "OPEN"

\* The hook is Idle.
Idle ==
    /\ websocketRef = NULL
    /\ ~isConnected
    /\ ~isRecording
    /\ capture = "off"

\* C1: whatever the interleaving of enqueues (socket audio frames, text
\* fallback responses) with playback-ended and playback-failed events, the
\* fragments handed to the player are a prefix of the enqueue sequence.
C1_PlaysInEnqueueOrder == IsPrefix(Started, enqueued)

\* Three fragments were started in turn, the first failed, the second ended,
\* and the first two differ.
C1_Witness ==
    /\ Len(audios) = 3
    /\ audios[1].state = "failed"
    /\ audios[2].state = "ended"
    /\ audios[1].src # audios[2].src
    /\ \E j \in 1..Len(messages) : messages[j] = Msg("agent", "[audio]")

\* C2: at most one Audio element is in playback (started, neither ended nor
\* failed) in every reachable state.
C2_AtMostOnePlaying == Cardinality(InPlayback) <= 1

\* A fragment is playing, an earlier one has ended, and two more wait in the
\* queue: enqueues arrived during playback and started nothing.
C2_Witness ==
    /\ Cardinality(InPlayback) = 1
    /\ \E k \in 1..Len(audios) : audios[k].state = "ended"
    /\ Len(audioQueueRef) = 2

\* C3: at most one socket created by the hook is connecting or open.
C3_AtMostOneLiveSocket == Cardinality(LiveSockets) <= 1

\* C4: a startConversation call made while the session is Active issues no
\* signed-URL request, creates no socket, starts no microphone subscription
\* and leaves messages, isRecording and the socket reference unchanged.
C4_StartWhileActiveIsNoOp ==
    [][(startCalls' = startCalls + 1 /\ Active) =>
          /\ urlRequests' = urlRequests
          /\ signedUrlPending' = signedUrlPending
          /\ sockets' = sockets
          /\ capture' = capture
          /\ messages' = messages
          /\ isRecording' = isRecording
          /\ isConnected' = isConnected
          /\ websocketRef' = websocketRef]_vars

\* A start call was made that issued no request, and the session is Active.
C4_Witness ==
    /\ startCalls = 2
    /\ urlRequests = 1
    /\ Active
    /\ Len(sockets) = 1
    /\ signedUrlPending = <<>>

\* C5: in every reachable state, stopConversation applied twice gives the
\* state it gives applied once, that state has the socket reference null,
\* isConnected and isRecording false and the capture stopped, and applied to
\* an Idle hook it changes nothing.
C5_StopIdempotent ==
    /\ Stop(Stop(Conn)) = Stop(Conn)
    /\ Stop(Conn).websocketRef = NULL
    /\ ~Stop(Conn).isConnected
    /\ ~Stop(Conn).isRecording
    /\ Stop(Conn).capture = "off"
    /\ Idle => Stop(Conn) = Conn

\* stopConversation has run on an Active, recording session: the hook is
\* Idle and the socket it closed is still closing.
C5_Witness ==
    /\ Idle
    /\ \E i \in SocketIds :
          /\ sockets[i].readyState = "CLOSING"
          /\ sockets[i].onopen = "done"
          /\ \E n \in 1..MaxChunks : ChunkMsg(n) \in {sockets[i].sent[j] : j \in 1..Len(sockets[i].sent)}

\* The outbound messages of socket i, as a set.
SentOn(i) == {sockets[i].sent[j] : j \in 1..Len(sockets[i].sent)}

\* C6: a socket whose start was in flight (awaiting its signed URL, or still
\* connecting) when stopConversation was called never becomes Active: it is
\* never open, nothing is sent on it and its open handler never runs.
C6_StopCancelsStartInFlight ==
    \A i \in midflightStopped :
        /\ sockets[i].readyState # "OPEN"
        /\ sockets[i].sent = <<>>
        /\ sockets[i].onopen = "idle"

\* C7: when the close event of the current socket arrives while the session
\* is Active, the handler leaves the socket reference null, isConnected and
\* isRecording false and the capture stopped, and creates no socket and
\* issues no request; and in every step a socket is created only by
\* consuming a pending signed-URL request, and a request is issued only by a
\* startConversation call.
C7_ServerCloseDrivesIdle ==
    [][/\ \A i \in SocketIds :
            (Active /\ websocketRef = i /\ sockets'[i].readyState = "CLOSED") =>
                /\ websocketRef' = NULL
                /\ ~isConnected'
                /\ ~isRecording'
                /\ capture' = "off"
                /\ Len(sockets') = Len(sockets)
                /\ \A j \in SocketIds : Live(sockets'[j]) => Live(sockets[j])
                /\ signedUrlPending' = signedUrlPending
                /\ urlRequests' = urlRequests
       /\ Len(sockets') > Len(sockets) =>
              Len(signedUrlPending') = Len(signedUrlPending) - 1
       /\ urlRequests' > urlRequests => startCalls' = startCalls + 1]_vars

\* The server closed the socket of an Active, recording session (a chunk had
\* been sent on it), and the hook is Idle with no socket live.
C7_Witness ==
    /\ Idle
    /\ LiveSockets = {}
    /\ \E i \in serverClosed :
          /\ sockets[i].readyState = "CLOSED"
          /\ sockets[i].onopen = "done"
          /\ ChunkMsg(1) \in SentOn(i)

\* C8: a microphone frame is sent as a user_audio_chunk on the current
\* socket when that socket is OPEN and is dropped otherwise (nothing is sent
\* on any socket, then or later); and no step removes or reorders what a
\* socket has sent, so chunks leave in the order they were delivered.
C8_ChunksOnlyOnOpenSocket ==
    [][/\ micFrames' = micFrames + 1 =>
            IF websocketRef # NULL /\ sockets[websocketRef].readyState = "OPEN"
            THEN sockets' = Send(sockets, websocketRef, ChunkMsg(micFrames'))
            ELSE sockets' = sockets
       /\ micFrames' = micFrames =>
            \A i \in SocketIds : \A n \in 1..MaxChunks + 1 :
                ChunkMsg(n) \in {sockets'[i].sent[j] : j \in 1..Len(sockets'[i].sent)}
                    => ChunkMsg(n) \in SentOn(i)
       /\ \A i \in SocketIds : IsPrefix(sockets[i].sent, sockets'[i].sent)]_vars

\* The first frame was sent on the open socket; the second arrived after
\* stopConversation and was dropped.
C8_Witness ==
    /\ micFrames = 2
    /\ websocketRef = NULL
    /\ \E i \in SocketIds : ChunkMsg(1) \in SentOn(i) /\ sockets[i].readyState = "CLOSING"
    /\ \A i \in SocketIds : ChunkMsg(2) \notin SentOn(i)

\* The frames received so far, without the socket they arrived on.
FramesReceived == [k \in 1..Len(framesIn) |-> framesIn[k].frame]

\* The entries of the message log that ws.onmessage appended.
RECURSIVE FromSocket(_, _)
FromSocket(msgs, origin) ==
    IF msgs = <<>> THEN <<>>
    ELSE LET n == Len(msgs)
             rest == FromSocket(SubSeq(msgs, 1, n - 1), SubSeq(origin, 1, n - 1))
         IN  IF origin[n] = "ws" THEN Append(rest, msgs[n]) ELSE rest

\* The log the claim expects of a frame sequence: one user entry per
\* user_transcript with a non-empty transcript, one agent entry per
\* agent_response with a non-empty response, in arrival order.
RECURSIVE ExpectedLog(_)
ExpectedLog(fs) ==
    IF fs = <<>> THEN <<>>
    ELSE LET f == fs[Len(fs)]
             rest == ExpectedLog(SubSeq(fs, 1, Len(fs) - 1))
         IN  IF f.type = "user_transcript" /\ f.hasEvent /\ f.text # ""
             THEN Append(rest, [role |-> "user", text |-> f.text])
             ELSE IF f.type = "agent_response" /\ f.hasEvent /\ f.text # ""
             THEN Append(rest, [role |-> "agent", text |-> f.text])
             ELSE rest

\* The pongs the claim expects: one per ping, with its event_id, in order.
RECURSIVE ExpectedPongs(_)
ExpectedPongs(fs) ==
    IF fs = <<>> THEN <<>>
    ELSE LET f == fs[Len(fs)]
             rest == ExpectedPongs(SubSeq(fs, 1, Len(fs) - 1))
         IN  IF f.type = "ping"
             THEN Append(rest, [type |-> "pong", v |-> f.event_id])
             ELSE rest

\* The fragments the claim expects to be enqueued: the non-empty audio
\* payloads, in arrival order.
RECURSIVE ExpectedAudio(_)
ExpectedAudio(fs) ==
    IF fs = <<>> THEN <<>>
    ELSE LET f == fs[Len(fs)]
             rest == ExpectedAudio(SubSeq(fs, 1, Len(fs) - 1))
         IN  IF f.type = "audio" /\ f.hasEvent /\ f.text # ""
             THEN Append(rest, f.text)
             ELSE rest

\* C9: after any sequence of well-formed frames on the open socket, the log
\* holds exactly the non-empty transcripts (role user) and responses (role
\* agent) in arrival order, one pong was sent per ping with its event_id,
\* and the audio payloads are played in arrival order, one at a time.
C9_LogFollowsFrames ==
    (\A k \in 1..Len(framesIn) : WellFormed(framesIn[k].frame)) =>
        /\ FromSocket(messages, msgOrigin) = ExpectedLog(FramesReceived)
        /\ sockets[1].sent = <<InitiationMsg>> \o ExpectedPongs(FramesReceived)
        /\ Started \o audioQueueRef = ExpectedAudio(FramesReceived)
        /\ Cardinality(InPlayback) <= 1

\* The frames [ping(7), user_transcript("hi"), audio(A),
\* agent_response("hello"), audio(B)] were received: the log is
\* [{user, hi}, {agent, hello}], one pong 7 was sent, A ended and B plays.
C9_Witness ==
    /\ FramesReceived = <<Ping(7), UserTranscript("hi"), AudioFrame("A"),
                          AgentResponse("hello"), AudioFrame("B")>>
    /\ messages = <<Msg("user", "hi"), Msg("agent", "hello")>>
    /\ sockets[1].sent = <<InitiationMsg, PongMsg(7)>>
    /\ audios = <<[src |-> "A", state |-> "ended"], [src |-> "B", state |-> "playing"]>>
    /\ audioQueueRef = <<>>

\* C10: a ping received on an open socket makes the handler send exactly
\* one pong with the ping's event_id on that socket, and leaves the message
\* log, the audio queue, the playing flag and the connection state unchanged.
C10_PingAnsweredByOnePong ==
    [][(Len(framesIn') = Len(framesIn) + 1 /\
        framesIn'[Len(framesIn')].frame.type = "ping" /\
        WellFormed(framesIn'[Len(framesIn')].frame)) =>
          LET i == framesIn'[Len(framesIn')].sock
              id == framesIn'[Len(framesIn')].frame.event_id
          IN  /\ sockets[i].readyState = "OPEN"
              /\ sockets' = [sockets EXCEPT ![i].sent =
                                 Append(@, [type |-> "pong", v |-> id])]
              /\ UNCHANGED <<messages, audioQueueRef, isAudioPlayingRef, audios,
                             websocketRef, isConnected, isRecording, capture>>]_vars

\* A ping was answered on a socket that is open but is no longer the
\* current one.
C10_Witness ==
    \E i \in SocketIds :
        /\ PongMsg(7) \in SentOn(i)
        /\ sockets[i].readyState = "OPEN"
        /\ websocketRef # i

\* The frames of a sequence whose handling does not throw, in order.
RECURSIVE WellFormedOnly(_)
WellFormedOnly(fs) ==
    IF fs = <<>> THEN <<>>
    ELSE LET rest == WellFormedOnly(SubSeq(fs, 1, Len(fs) - 1))
         IN  IF WellFormed(fs[Len(fs)]) THEN Append(rest, fs[Len(fs)]) ELSE rest

\* C11: a frame that fails to parse, or a ping without ping_event, changes
\* nothing: the session stays Active on its open socket, and the log, the
\* pongs and the fragments are those of the well-formed frames received
\* before and after it, in the same order.
C11_MalformedFrameIgnored ==
    /\ [][(Len(framesIn') = Len(framesIn) + 1 /\
           Throws(framesIn'[Len(framesIn')].frame)) =>
             UNCHANGED <<messages, sockets, audioQueueRef, isAudioPlayingRef,
                         audios, enqueued, websocketRef, isConnected,
                         isRecording, capture>>]_vars
    /\ [](/\ Active
          /\ messages = ExpectedLog(WellFormedOnly(FramesReceived))
          /\ sockets[1].sent =
                 <<InitiationMsg>> \o ExpectedPongs(WellFormedOnly(FramesReceived))
          /\ enqueued = ExpectedAudio(WellFormedOnly(FramesReceived)))

\* An unparseable frame arrived between a transcript and a response, and
\* both are in the log, in order; the session is still Active.
C11_Witness ==
    /\ FramesReceived = <<UserTranscript("hi"), Garbage, AgentResponse("hello")>>
    /\ messages = <<Msg("user", "hi"), Msg("agent", "hello")>>
    /\ Active

\* C12: sendTextMessage with a non-empty text appends the user entry before
\* the synthesis request settles; when the request settles, exactly one
\* agent entry is appended: "[audio]" together with exactly one enqueued
\* fragment on success, the failure notice and no fragment on failure.
C12_TextFallbackReplies ==
    [][/\ TextCalls' = TextCalls + 1 =>
            /\ \E text \in TypedTexts \ {""} :
                  /\ messages' = Append(messages, [role |-> "user", text |-> text])
                  /\ ttsPending' = Append(ttsPending, text)
            /\ enqueued' = enqueued
       /\ Len(ttsPending') = Len(ttsPending) - 1 =>
            \/ /\ \E b \in Fragments : enqueued' = Append(enqueued, b)
               /\ messages' = Append(messages, [role |-> "agent", text |-> "[audio]"])
            \/ /\ enqueued' = enqueued
               /\ messages' = Append(messages,
                      [role |-> "agent", text |-> "Sorry, I could not process that."])]_vars

\* C13: when every started playback ends or fails, every enqueued fragment
\* is handed to the player: no fragment is dropped or played twice (the
\* started fragments followed by the queue are the enqueued ones), and the
\* n-th enqueued fragment is eventually the n-th started, also after
\* failures.
C13_EveryFragmentPlayedOnce ==
    /\ [](Started \o audioQueueRef = enqueued)
    /\ \A n \in 1..(MaxAudioFrames + MaxTexts + 2) :
           (Len(enqueued) >= n) ~> (Len(audios) >= n)

\* The first fragment failed while two more waited; both were started
\* after it, and nothing is left in the queue.
C13_Witness ==
    /\ Len(audios) = 3
    /\ audios[1].state = "failed"
    /\ audios[2].state = "failed"
    /\ audios[3].state = "playing"
    /\ Started = enqueued

\* C14: the text fallback is independent of the voice channel. In every
\* phase of a session a sendTextMessage call and its completion leave the
\* socket reference, isConnected, isRecording, the capture and every socket
\* (what was sent on it included) unchanged, and have the same effect on the
\* log and the queue; the audio of both paths goes through the one queue, so
\* at most one fragment is in playback and the fragments start in the order
\* they were enqueued.
C14_TextPathIndependent ==
    /\ [][/\ (TextCalls' = TextCalls + 1) =>
                 /\ UNCHANGED <<websocketRef, isConnected, isRecording, capture, sockets>>
                 /\ Len(messages') = Len(messages) + 1
                 /\ messages'[Len(messages')].role = "user"
                 /\ ttsPending' = Append(ttsPending, messages'[Len(messages')].text)
                 /\ UNCHANGED <<audioQueueRef, isAudioPlayingRef, audios, enqueued>>
          /\ (Len(ttsPending') < Len(ttsPending)) =>
                 /\ UNCHANGED <<websocketRef, isConnected, isRecording, capture, sockets>>
                 /\ \/ /\ \E b \in Fragments : enqueued' = Append(enqueued, b)
                       /\ messages' = Append(messages, Msg("agent", "[audio]"))
                    \/ /\ enqueued' = enqueued
                       /\ IsPrefix(messages, messages')
                       /\ Len(messages') <= Len(messages) + 1]_vars
    /\ [](/\ Cardinality(InPlayback) <= 1
          /\ Started \o audioQueueRef = enqueued)

\* While the session is Active and a fragment from the socket is playing, a
\* text message was sent and answered: its fragment waits in the same queue
\* and nothing but the initiation message was sent on the socket.
C14_Witness ==
    /\ Active
    /\ FramesReceived = <<AudioFrame("A")>>
    /\ messages = <<Msg("user", "hello"), Msg("agent", "[audio]")>>
    /\ Started = <<"A">>
    /\ audioQueueRef = <<"B">>
    /\ Cardinality(InPlayback) = 1
    /\ sockets[websocketRef].sent = <<InitiationMsg>>

\* The responses of a route, and the upstream requests of an API.
ResponsesOf(route) ==
    {k \in 1..Len(server.responses) : server.responses[k].route = route}

UpstreamCalls(api) ==
    {k \in 1..Len(server.upstream) : server.upstream[k].api = api}

Is2xx(status) == status \in 200..299

\* C15: GET /api/signed-url answers a non-2xx status and {error}, and makes
\* no upstream request, when the agent ID or the API key is not configured;
\* it answers a non-2xx status and {error} when the upstream call fails or
\* returns no signed_url; otherwise it answers {signedUrl} with the upstream
\* signed_url. No response body of either route contains the API key.
C15_SignedUrlRoute ==
    /\ \A k \in ResponsesOf("signed-url") :
          LET r == server.responses[k] IN
          IF server.env.agentId = "" \/ server.env.apiKey = ""
          THEN ~Is2xx(r.status) /\ r.error # "" /\ r.signedUrl = "" /\ r.up = NoCall
          ELSE IF ~r.up.ok \/ r.up.signed_url = ""
          THEN ~Is2xx(r.status) /\ r.error # "" /\ r.signedUrl = ""
          ELSE Is2xx(r.status) /\ r.error = "" /\ r.signedUrl = r.up.signed_url
    /\ (server.env.agentId = "" \/ server.env.apiKey = "") =>
          UpstreamCalls("get-signed-url") = {}
    /\ Cardinality(UpstreamCalls("get-signed-url")) =
          Cardinality({k \in ResponsesOf("signed-url") : server.responses[k].up # NoCall})
          + Cardinality({k \in 1..Len(server.pending) : server.pending[k].route = "signed-url"})
    /\ server.env.apiKey # "" =>
          \A k \in 1..Len(server.responses) :
              server.env.apiKey \notin {server.responses[k].error, server.responses[k].signedUrl,
                                        server.responses[k].audio, server.responses[k].format}

\* On a configured backend one request failed because the upstream answer
\* had no signed_url and the next one returned the upstream signed URL.
C15_Witness ==
    /\ server.env = DeployedEnv
    /\ Len(server.responses) = 2
    /\ server.responses[1] =
           Failure("signed-url", NoBody, Upstream(TRUE, "", <<>>), 500, "Failed to obtain signed URL")
    /\ server.responses[2].status = 200
    /\ server.responses[2].signedUrl = "wss://signed-2"
    /\ Cardinality(UpstreamCalls("get-signed-url")) = 2

\* C16: the voice ID is optional for the text-to-speech fallback. With the
\* API key configured, a POST /api/tts whose text is a non-empty string is
\* answered with {audio, format: 'mp3'} unless the upstream call itself
\* failed, whether or not ELEVENLABS_VOICE_ID is set.
C16_VoiceIdOptional ==
    \A k \in ResponsesOf("tts") :
        LET r == server.responses[k] IN
        (/\ server.env.apiKey # ""
         /\ r.text.type = "string" /\ r.text.value # ""
         /\ (r.up = NoCall \/ r.up.ok))
        => (Is2xx(r.status) /\ r.error = "" /\ r.format = "mp3")

\* No callback of a session is pending: no signed-URL request is in flight,
\* no socket is still connecting or closing, and no open handler waits for
\* startStreaming().
Quiescent ==
    /\ signedUrlPending = <<>>
    /\ \A i \in SocketIds : /\ sockets[i].readyState \in {"OPEN", "CLOSED"}
                            /\ sockets[i].onopen # "awaitStreaming"
    /\ capture # "starting"

CaptureNeedsSocket ==
    (Quiescent /\ capture = "on") => \E i \in SocketIds : sockets[i].readyState = "OPEN"

\* C17: the microphone subscription and the WebSocket are released together.
\* Once the pending callbacks have run, capture is not running while no
\* socket is open, and no socket the hook created is still connecting or
\* open while the hook is Idle (socket reference null, isConnected false).
C17_ReleasedTogether ==
    /\ CaptureNeedsSocket
    /\ (Quiescent /\ websocketRef = NULL /\ ~isConnected) => LiveSockets = {}

\* C18: on each socket the hook opens, conversation_initiation_client_data is
\* sent exactly once, in the step in which the socket opens, and it is the
\* first message on the socket: every user_audio_chunk and every pong comes
\* after it.
C18_InitiationOnceAndFirst ==
    /\ [](\A i \in SocketIds :
            IF sockets[i].onopen = "idle"
            THEN sockets[i].sent = <<>>
            ELSE /\ sockets[i].sent # <<>>
                 /\ sockets[i].sent[1] = InitiationMsg
                 /\ \A j \in 2..Len(sockets[i].sent) : sockets[i].sent[j] # InitiationMsg)
    /\ [][\A i \in SocketIds :
            (sockets[i].readyState = "CONNECTING" /\ sockets'[i].readyState = "OPEN")
            <=> (sockets[i].sent = <<>> /\ sockets'[i].sent = <<InitiationMsg>>)]_vars

\* A socket carried the initiation message, then a microphone frame, then a
\* pong.
C18_Witness ==
    \E i \in SocketIds : sockets[i].sent = <<InitiationMsg, ChunkMsg(1), PongMsg(7)>>

\* A frame the handler parses and then drops: its type is none of the four
\* the handler knows, or it is a transcript, response or audio frame whose
\* payload is missing or empty.
Dropped(f) ==
    /\ WellFormed(f)
    /\ \/ f.type \notin {"ping", "user_transcript", "agent_response", "audio"}
       \/ (f.type \in {"user_transcript", "agent_response", "audio"} /\ Payload(f) = "")

\* C19: an inbound frame with an unknown type, or a user_transcript,
\* agent_response or audio frame whose payload is missing or empty, is a
\* no-op: the step that handles it appends no message, enqueues and starts no
\* fragment, sends nothing on any socket and leaves the playing flag and the
\* connection state unchanged.
C19_DroppedFrameIsNoOp ==
    [][(Len(framesIn') = Len(framesIn) + 1 /\ Dropped(framesIn'[Len(framesIn')].frame)) =>
          UNCHANGED <<messages, sockets, audioQueueRef, isAudioPlayingRef, audios, enqueued,
                      websocketRef, isConnected, isRecording, capture>>]_vars

\* An unknown type, an empty audio payload and a transcript without its
\* event object were received, and nothing came of them.
C19_Witness ==
    /\ FramesReceived = <<Frame(TRUE, "interruption", FALSE, 0, ""), AudioFrame(""),
                          Frame(TRUE, "user_transcript", FALSE, 0, "")>>
    /\ messages = <<>>
    /\ audios = <<>>
    /\ audioQueueRef = <<>>
    /\ sockets[1].sent = <<InitiationMsg>>
    /\ Active

\* C20: the message log is append-only. In every step of every behaviour
\* (start, stop, socket open, message and close, sendTextMessage and its
\* completion) the log before the step is a prefix of the log after it.
C20_LogAppendOnly == [][IsPrefix(messages, messages')]_vars

\* A transcript from the socket and a text exchange are in the log, and they
\* are still there after the session was stopped and its socket closed.
C20_Witness ==
    /\ messages = <<Msg("user", "hi"), Msg("user", "hello"), Msg("agent", "[audio]")>>
    /\ Idle
    /\ Len(sockets) = 1
    /\ sockets[1].readyState = "CLOSED"
    /\ 1 \notin serverClosed

\* The signed-URL requests that were answered; each answer that carried a
\* signed URL created one socket.
UrlAnswers == urlRequests - Len(signedUrlPending)

\* C21: a signed-URL request that fails or returns no signedUrl is caught. The
\* step that handles it creates no socket, leaves the socket reference,
\* isConnected, isRecording, the capture, the message log and the audio queue
\* as they were and issues no further request; and as long as no request has
\* produced a socket the hook stays Idle.
C21_FailedStartIsCaught ==
    /\ [][(UrlAnswers' = UrlAnswers + 1 /\ Len(sockets') = Len(sockets)) =>
             UNCHANGED <<websocketRef, isConnected, isRecording, capture, sockets, messages,
                         audioQueueRef, isAudioPlayingRef, audios, enqueued, urlRequests,
                         startCalls>>]_vars
    /\ [](sockets = <<>> => Idle)

\* The only start failed to obtain its URL while a text exchange was in the
\* log and its fragment was playing: there is no socket and the hook is Idle.
C21_Witness ==
    /\ startCalls = 1
    /\ urlRequests = 1
    /\ signedUrlPending = <<>>
    /\ sockets = <<>>
    /\ Idle
    /\ messages = <<Msg("user", "hello"), Msg("agent", "[audio]")>>
    /\ Cardinality(InPlayback) = 1

\* C22: in every reachable state isRecording implies that the hook holds an
\* open socket: the socket reference is set, its socket is OPEN and
\* isConnected is true. In particular isRecording does not become true after
\* a close or a stop that ran while ws.onopen was awaiting startStreaming().
C22_RecordingImpliesOpenSocket ==
    isRecording =>
        /\ websocketRef # NULL
        /\ sockets[websocketRef].readyState = "OPEN"
        /\ isConnected

\* C23: a new conversation can be started at any time after a stop. The late
\* close event of a socket that stopConversation closed, arriving when the
\* socket reference already points to the socket of a later start, leaves
\* the reference, isConnected, isRecording and the capture unchanged.
C23_LateCloseLeavesNewSession ==
    [][\A i \in SocketIds :
          (/\ sockets[i].readyState = "CLOSING"
           /\ sockets'[i].readyState = "CLOSED"
           /\ websocketRef # NULL
           /\ websocketRef # i)
          => UNCHANGED <<websocketRef, isConnected, isRecording, capture>>]_vars

\* C24: the playback queue never idles with work pending. In every state
\* between event handlers a non-empty audio queue implies that the playing
\* flag is set, and the flag is set exactly when one started fragment has
\* neither ended nor failed.
C24_QueueNeverIdles ==
    /\ audioQueueRef # <<>> => isAudioPlayingRef
    /\ isAudioPlayingRef <=> Cardinality(InPlayback) = 1
    /\ ~isAudioPlayingRef => InPlayback = {}

\* The first fragment failed to play, the second was started at once, and a
\* third, from the text fallback, waits behind it.
C24_Witness ==
    /\ Len(audios) = 2
    /\ audios[1].state = "failed"
    /\ audios[2].state = "playing"
    /\ Len(audioQueueRef) = 1
    /\ isAudioPlayingRef
    /\ \E j \in 1..Len(messages) : messages[j] = Msg("agent", "[audio]")

\* A step of stopConversation or of a socket's close event, told by what it
\* does: a socket turns CLOSING or CLOSED, the socket reference is cleared,
\* isConnected or isRecording is reset, the capture is released, or a pending
\* start is overtaken by the stop.
StopOrCloseStep ==
    \/ \E i \in SocketIds : /\ sockets'[i].readyState # sockets[i].readyState
                            /\ sockets'[i].readyState \in {"CLOSING", "CLOSED"}
    \/ websocketRef # NULL /\ websocketRef' = NULL
    \/ isConnected /\ ~isConnected'
    \/ isRecording /\ ~isRecording'
    \/ capture # "off" /\ capture' = "off"
    \/ /\ Len(signedUrlPending') = Len(signedUrlPending)
       /\ signedUrlPending' # signedUrlPending

\* C25: stopConversation and socket closure leave the playback sequencer
\* untouched. Their steps change neither the audio queue nor the playing flag
\* nor any Audio element; what was enqueued is neither dropped nor reordered
\* and, when playbacks end or fail, the queue is drained again and again, so
\* every fragment is still started; and a socket that is CLOSING or CLOSED
\* delivers no further fragment.
C25_StopLeavesPlaybackAlone ==
    /\ [][StopOrCloseStep => UNCHANGED <<audioQueueRef, isAudioPlayingRef, audios, enqueued>>]_vars
    /\ [](Started \o audioQueueRef = enqueued)
    /\ []<>(audioQueueRef = <<>>)
    /\ [][Len(framesIn') = Len(framesIn) + 1 =>
            sockets[framesIn'[Len(framesIn')].sock].readyState = "OPEN"]_vars

\* A fragment from the socket was playing and one from the text fallback
\* was queued when the session was stopped; after the stop the first ended
\* and the second was started.
C25_Witness ==
    /\ Idle
    /\ Len(sockets) = 1
    /\ sockets[1].readyState \in {"CLOSING", "CLOSED"}
    /\ 1 \notin serverClosed
    /\ Started = <<"A", "B">>
    /\ audios[1].state = "ended"
    /\ audios[2].state = "playing"
    /\ audioQueueRef = <<>>

====
